---------------------------- MODULE Spec2Model ----------------------------
(***************************************************************************)
(* A model of devon (src/src/main.rs): an interactive terminal viewer of   *)
(* the diagnostics of pyright and flake8.                                  *)
(*                                                                         *)
(* main() acquires the terminal, runs the two adapters, builds the App     *)
(* (items, line_offsets, viewport), paints once, and then handles one      *)
(* terminal event per iteration of its loop until a quit key breaks it.    *)
(* Every .unwrap() / .expect() / unreachable!() of the source is a panic:  *)
(* the process ends there and the teardown at the end of main is skipped.  *)
(*                                                                         *)
(* Indices (first_visible_item, selected_item, ...) are 0-based as in the  *)
(* source; TLA+ sequences are 1-based, so items[i] of the source is        *)
(* a.items[i + 1] here.                                                    *)
(***************************************************************************)
EXTENDS Integers, Sequences, FiniteSets, TLC

(***************************************************************************)
(* Bounds of the model.                                                    *)
(***************************************************************************)
\* Most rows (sublines) the snippet formatter returns for one diagnostic.
MaxRows == 2
\* Largest terminal height (rows) the terminal reports.
MaxHeight == 2
\* Most diagnostics in one run of pyright, of flake8.
MaxPyright == 1
MaxFlake8 == 2
\* The terminal widths (columns) the terminal reports; the program stores
\* the width and never reads it.
Widths == {80, 120}

\* usize::MAX, what 0usize - 1 wraps to in a build without overflow checks.
\* TLC's integers are 32 bits wide, so the largest of them stands
\* for it: every offset of the model is far below either.
UsizeMax == 2147483647

VARIABLES
    pc,             \* where main() is: "setup", "size", "pyright", ...,
                    \* "running", and the ends "terminated" and "panicked"
    term,           \* the terminal's modes, as the terminal has them
    out_buf,        \* w: commands queued in the BufWriter, not yet flushed
                    \* (a run of ScrollDown commands is kept as one)
    procs,          \* the subprocesses launched so far, in order
    out,            \* `out` of the adapter that is running: what its tool wrote
    size,           \* (width, height) as crossterm::terminal::size() gave it
    pyright_items,  \* `items` of render_in_buffer: what pyright() returned
    flake8_items,   \* `items2` of render_in_buffer: what flake8() returned
    app,            \* the App struct
    frame,          \* the rows the last render_to_term emitted
    panic           \* the panic that ended the process, if one did

vars == <<pc, term, out_buf, procs, out, size, pyright_items, flake8_items,
          app, frame, panic>>

-----------------------------------------------------------------------------
(***************************************************************************)
(* Helpers.                                                                *)
(***************************************************************************)
Range(s) == {s[i] : i \in 1..Len(s)}

\* All sequences over S of length at most n.
SeqUpTo(S, n) == UNION {[1..k -> S] : k \in 0..n}

RECURSIVE SumLines(_, _)
\* The number of rows of the first n items of a list.
SumLines(its, n) == IF n = 0 THEN 0 ELSE SumLines(its, n - 1) + Len(its[n].lines)

-----------------------------------------------------------------------------
(***************************************************************************)
(* The terminal.                                                           *)
(***************************************************************************)
\* The modes of the user's terminal before the program starts.
TermInit ==
    [alternate_screen |-> FALSE, raw_mode |-> FALSE,
     cursor_hidden |-> FALSE, line_wrap |-> TRUE]

\* What one crossterm command does to the terminal's modes once written.
Apply(t, cmd) ==
    CASE cmd = "EnterAlternateScreen" -> [t EXCEPT !.alternate_screen = TRUE]
      [] cmd = "LeaveAlternateScreen" -> [t EXCEPT !.alternate_screen = FALSE]
      [] cmd = "Hide"                 -> [t EXCEPT !.cursor_hidden = TRUE]
      [] cmd = "Show"                 -> [t EXCEPT !.cursor_hidden = FALSE]
      [] cmd = "DisableLineWrap"      -> [t EXCEPT !.line_wrap = FALSE]
      [] OTHER                        -> t

RECURSIVE Flush(_, _)
\* w.flush(): the queued commands reach the terminal in the order queued.
Flush(t, buf) ==
    IF buf = <<>> THEN t ELSE Flush(Apply(t, Head(buf)), Tail(buf))

\* w.queue(..) of the commands of queue.
Queue(buf, queue) ==
    IF queue = <<>> THEN buf
    ELSE IF buf # <<>> /\ buf[Len(buf)] = "ScrollDown" /\ queue = <<"ScrollDown">>
    THEN buf
    ELSE buf \o queue

\* The commands main() queues before anything else.
SetupCommands == <<"EnterAlternateScreen", "Hide", "DisableLineWrap">>

\* The commands main() queues after the loop.
TeardownCommands == <<"Show", "LeaveAlternateScreen">>

-----------------------------------------------------------------------------
(***************************************************************************)
(* The App struct and its methods.                                         *)
(***************************************************************************)
\* App::default().
AppDefault ==
    [items |-> <<>>, line_offsets |-> <<>>, first_visible_item |-> 0,
     first_visible_subline |-> 0, selected_item |-> 0, width |-> 0, height |-> 0]

\* items[i].lines.len()
NumLines(a, i) == Len(a.items[i + 1].lines)

\* fn line_offset(&self, item, subline)
line_offset(a, item, subline) == a.line_offsets[item + 1] + subline

RECURSIVE build_offsets_after_add(_, _, _)
\* build_offsets, were it to push the offset after adding the item's rows.
build_offsets_after_add(its, k, offset) ==
    IF k > Len(its) THEN <<>>
    ELSE <<offset + Len(its[k].lines)>>
             \o build_offsets_after_add(its, k + 1, offset + Len(its[k].lines))

RECURSIVE build_offsets(_, _, _)
\* The loop that fills app.line_offsets: push the running offset, then add
\* the item's number of rows.
build_offsets(its, k, offset) ==
    IF k > Len(its) THEN <<>>
    ELSE <<offset>> \o build_offsets(its, k + 1, offset + Len(its[k].lines))

RECURSIVE paint_rows_marks_every_row(_, _, _, _)
\* paint_rows, were it to write the marker without looking at the subline.
paint_rows_marks_every_row(a, item, subline, rows) ==
    IF rows = 0 \/ item >= Len(a.items) THEN <<>>
    ELSE LET row == [item |-> item, subline |-> subline,
                     marker |-> (item = a.selected_item),
                     badge |-> IF subline = 0 THEN item + 1 ELSE 0,
                     bytes |-> a.items[item + 1].lines[subline + 1]]
             wrap == subline + 1 >= NumLines(a, item)
         IN <<row>> \o paint_rows_marks_every_row(a,
                           IF wrap THEN item + 1 ELSE item,
                           IF wrap THEN 0 ELSE subline + 1, rows - 1)

RECURSIVE paint_rows(_, _, _, _)
\* The for loop of render_to_term with `rows` iterations left: one row per
\* iteration, from (item, subline) on, until the items are exhausted.
paint_rows(a, item, subline, rows) ==
    IF rows = 0 \/ item >= Len(a.items) THEN <<>>
    ELSE LET row == [item |-> item, subline |-> subline,
                     marker |-> (subline = 0 /\ item = a.selected_item),
                     badge |-> IF subline = 0 THEN item + 1 ELSE 0,
                     bytes |-> a.items[item + 1].lines[subline + 1]]
             wrap == subline + 1 >= NumLines(a, item)
         IN <<row>> \o paint_rows(a, IF wrap THEN item + 1 ELSE item,
                                  IF wrap THEN 0 ELSE subline + 1, rows - 1)

\* render_to_term indexes items[item].lines[subline] unchecked: it panics
\* when the first row's subline is not a row of its item.
render_panics(a) ==
    /\ a.height > 0
    /\ a.first_visible_item < Len(a.items)
    /\ a.first_visible_subline >= NumLines(a, a.first_visible_item)

\* fn render_to_term(&mut self, w): the rows it emits.
render_to_term(a) ==
    paint_rows(a, a.first_visible_item, a.first_visible_subline, a.height)

-----------------------------------------------------------------------------
(***************************************************************************)
(* What the tools write, and the adapters pyright() and flake8().          *)
(*                                                                         *)
(* A diagnostic carries what the adapter reads of it: its severity (or the *)
(* flake8 code's leading letter), how many rows the snippet formatter      *)
(* makes of it, and whether something about it makes the adapter panic     *)
(* (`fault`): the line does not have the PATH:ROW:COL: CODE MESSAGE shape, *)
(* its file cannot be read, its position is not in the file.               *)
(***************************************************************************)
NoPanic == [at |-> 0, msg |-> "", names |-> {}]

\* A process's captured stdout, before any was captured.
NoOutput == [empty |-> TRUE, valid |-> TRUE, entries |-> <<>>]

Severities == {"error", "warning", "information"}

\* The leading letters of flake8 codes: the five the adapter knows and one
\* (D, of pydocstyle) it does not.
Letters == {"E", "W", "F", "C", "N", "D"}

\* The diagnostics pyright may report with a severity of sevs, the
\* formatter making up to maxrows rows of each.
PyrightDiags(sevs, maxrows) ==
    {[severity |-> s, rows |-> r, fault |-> "none"] : s \in sevs, r \in 1..maxrows}
    \cup {[severity |-> "error", rows |-> 1, fault |-> f] :
            f \in {"file", "position"}}

\* The lines flake8 may write with a code that starts with one of letters.
Flake8Lines(letters, maxrows) ==
    {[code |-> c, rows |-> r, fault |-> "none"] : c \in letters, r \in 1..maxrows}
    \cup {[code |-> "E", rows |-> 1, fault |-> f] :
            f \in {"shape", "file", "position"}}

\* What pyright may write: nothing, something that is not the JSON object,
\* or the object with its generalDiagnostics.
PyrightOutputs(sevs, maxrows) ==
    {[empty |-> TRUE, valid |-> TRUE, entries |-> <<>>],
     [empty |-> FALSE, valid |-> FALSE, entries |-> <<>>]}
    \cup {[empty |-> FALSE, valid |-> TRUE, entries |-> d] :
            d \in SeqUpTo(PyrightDiags(sevs, maxrows), MaxPyright)}

\* What flake8 may write: nothing, bytes that are not UTF-8, or lines.
Flake8Outputs(letters, maxrows) ==
    {[empty |-> TRUE, valid |-> TRUE, entries |-> <<>>],
     [empty |-> FALSE, valid |-> FALSE, entries |-> <<>>]}
    \cup {[empty |-> FALSE, valid |-> TRUE, entries |-> l] :
            l \in SeqUpTo(Flake8Lines(letters, maxrows), MaxFlake8) \ {<<>>}}

\* Severity::to_report_kind
to_report_kind(severity) ==
    CASE severity = "error"       -> "Error"
      [] severity = "warning"     -> "Warning"
      [] severity = "information" -> "Advice"

\* The match on the code's first character in flake8(); "unreachable" stands
\* for the arm that is unreachable!().
flake8_report_kind(code) ==
    CASE code = "E" -> "Error"
      [] code = "W" -> "Warning"
      [] code = "F" -> "Error"
      [] code = "C" -> "Advice"
      [] code = "N" -> "Warning"
      [] OTHER      -> "unreachable"

\* The Item an adapter pushes: the formatter's block of `rows` rows, split
\* on the newline byte. A row is opaque to the program; here it is what the
\* block shows: the tool's tag, the report kind, and which row it is.
Item(tag, kind, rows) == [lines |-> [j \in 1..rows |-> <<tag, kind, j>>]]

RECURSIVE pyright_loop(_, _)
\* The for loop of pyright() over output.general_diagnostics.
pyright_loop(diags, items) ==
    IF diags = <<>> THEN [panic |-> NoPanic, items |-> items]
    ELSE LET item == Head(diags) IN
         IF item.fault = "file"
         THEN [panic |-> [at |-> 84, msg |-> "Result::unwrap() on an Err: io::Error",
                          names |-> {}],
               items |-> <<>>]
         ELSE IF item.fault = "position"
         THEN [panic |-> [at |-> 46, msg |-> "Option::unwrap() on a None value",
                          names |-> {}],
               items |-> <<>>]
         ELSE pyright_loop(Tail(diags),
                  Append(items, Item("[pyright]", to_report_kind(item.severity),
                                     item.rows)))

\* fn pyright() after the process has run, o its captured stdout.
pyright(o) ==
    IF o.empty THEN [panic |-> NoPanic, items |-> <<>>]
    ELSE IF ~o.valid
    THEN [panic |-> [at |-> 80, msg |-> "Result::unwrap() on an Err: serde_json::Error",
                     names |-> {}],
          items |-> <<>>]
    ELSE pyright_loop(o.entries, <<>>)

RECURSIVE flake8_loop_skips_faulty(_, _)
\* flake8_loop, were it to leave out a line it cannot render and go on.
flake8_loop_skips_faulty(lines, items) ==
    IF lines = <<>> THEN [panic |-> NoPanic, items |-> items]
    ELSE LET line == Head(lines) IN
         IF line.fault # "none" \/ flake8_report_kind(line.code) = "unreachable"
         THEN flake8_loop_skips_faulty(Tail(lines), items)
         ELSE flake8_loop_skips_faulty(Tail(lines),
                  Append(items, Item("[flake8]", flake8_report_kind(line.code),
                                     line.rows)))

RECURSIVE flake8_loop(_, _)
\* The for loop of flake8() over s.lines(). The line is split and its file
\* read and indexed before its code is matched.
flake8_loop(lines, items) ==
    IF lines = <<>> THEN [panic |-> NoPanic, items |-> items]
    ELSE LET line == Head(lines) IN
         IF line.fault = "shape"
         THEN [panic |-> [at |-> 131, msg |-> "unwrap() of a missing or non-numeric token",
                          names |-> {}],
               items |-> <<>>]
         ELSE IF line.fault = "file"
         THEN [panic |-> [at |-> 137, msg |-> "Result::unwrap() on an Err: io::Error",
                          names |-> {}],
               items |-> <<>>]
         ELSE IF line.fault = "position"
         THEN [panic |-> [at |-> 46, msg |-> "Option::unwrap() on a None value",
                          names |-> {}],
               items |-> <<>>]
         ELSE IF flake8_report_kind(line.code) = "unreachable"
         THEN [panic |-> [at |-> 152, msg |-> "internal error: entered unreachable code",
                          names |-> {}],
               items |-> <<>>]
         ELSE flake8_loop(Tail(lines),
                  Append(items, Item("[flake8]", flake8_report_kind(line.code),
                                     line.rows)))

\* fn flake8() after the process has run, o its captured stdout.
flake8(o) ==
    IF o.empty THEN [panic |-> NoPanic, items |-> <<>>]
    ELSE IF ~o.valid
    THEN [panic |-> [at |-> 125, msg |-> "Result::unwrap() on an Err: Utf8Error",
                     names |-> {}],
          items |-> <<>>]
    ELSE flake8_loop(o.entries, <<>>)

\* render_in_buffer, were it to extend items2 with items.
render_in_buffer_flake8_first(items, items2) == items2 \o items

\* fn render_in_buffer(): items.extend(items2)
render_in_buffer(items, items2) == items \o items2

-----------------------------------------------------------------------------
(***************************************************************************)
(* main(): startup.                                                        *)
(***************************************************************************)
Init ==
    /\ pc = "setup"
    /\ term = TermInit
    /\ out_buf = <<>>
    /\ procs = <<>>
    /\ out = NoOutput
    /\ size = <<0, 0>>
    /\ pyright_items = <<>>
    /\ flake8_items = <<>>
    /\ app = AppDefault
    /\ frame = <<>>
    /\ panic = NoPanic

\* A panic ends the process: its memory is gone, and the teardown at the
\* end of main does not run. When the panic unwinds, dropping the BufWriter
\* writes what it still holds; when the build aborts on panic, it does not.
Panic(p) ==
    /\ pc' = "panicked"
    /\ panic' = p
    /\ \E unwinds \in BOOLEAN :
          term' = IF unwinds THEN Flush(term, out_buf) ELSE term
    /\ out_buf' = <<>>
    /\ out' = NoOutput
    /\ size' = <<0, 0>>
    /\ pyright_items' = <<>>
    /\ flake8_items' = <<>>
    /\ app' = AppDefault
    /\ frame' = <<>>
    /\ UNCHANGED procs

\* A write to the terminal fails: the .unwrap() on it (at line `at`) panics,
\* and nothing more reaches the terminal, whose modes stay as t.
IoPanic(at, t) ==
    /\ pc' = "panicked"
    /\ panic' = [at |-> at, msg |-> "Result::unwrap() on an Err: io::Error",
                 names |-> {}]
    /\ term' = t
    /\ out_buf' = <<>>
    /\ out' = NoOutput
    /\ size' = <<0, 0>>
    /\ pyright_items' = <<>>
    /\ flake8_items' = <<>>
    /\ app' = AppDefault
    /\ frame' = <<>>
    /\ UNCHANGED procs

\* The first lines of main: the three commands are queued in the BufWriter,
\* raw mode is enabled at once.
TerminalSetup ==
    /\ pc = "setup"
    /\ out_buf' = Queue(out_buf, SetupCommands)
    /\ term' = [term EXCEPT !.raw_mode = TRUE]
    /\ pc' = "size"
    /\ UNCHANGED <<procs, out, size, pyright_items, flake8_items, app, frame, panic>>

\* crossterm::terminal::size()
TerminalSize ==
    /\ pc = "size"
    /\ \E width \in Widths, height \in 0..MaxHeight :
          size' = <<width, height>>
    /\ pc' = "pyright"
    /\ UNCHANGED <<term, out_buf, procs, out, pyright_items, flake8_items, app,
                   frame, panic>>

\* pyright(): Command::new("pyright")...output() runs the tool to its end
\* and captures its stdout, one of outputs, or fails to launch it.
PyrightSpawnOf(outputs) ==
    /\ pc = "pyright"
    /\ \/ Panic([at |-> 76, msg |-> "No pyright in $PATH", names |-> {"pyright"}])
       \/ /\ \E o \in outputs : out' = o
          /\ procs' = Append(procs, "pyright")
          /\ pc' = "pyright_parse"
          /\ UNCHANGED <<term, out_buf, size, pyright_items, flake8_items, app,
                         frame, panic>>

\* The rest of pyright(): parse the output, render each diagnostic.
PyrightParse ==
    /\ pc = "pyright_parse"
    /\ LET r == pyright(out) IN
       IF r.panic # NoPanic THEN Panic(r.panic)
       ELSE /\ pyright_items' = r.items
            /\ out' = NoOutput
            /\ pc' = "flake8"
            /\ UNCHANGED <<term, out_buf, procs, size, flake8_items, app, frame, panic>>

\* flake8(): Command::new("flake8")...output()
Flake8SpawnOf(outputs) ==
    /\ pc = "flake8"
    /\ \/ Panic([at |-> 121, msg |-> "No flake8 in $PATH", names |-> {"flake8"}])
       \/ /\ \E o \in outputs : out' = o
          /\ procs' = Append(procs, "flake8")
          /\ pc' = "flake8_parse"
          /\ UNCHANGED <<term, out_buf, size, pyright_items, flake8_items, app,
                         frame, panic>>

\* The rest of flake8(): split the output into lines, render each.
Flake8Parse ==
    /\ pc = "flake8_parse"
    /\ LET r == flake8(out) IN
       IF r.panic # NoPanic THEN Panic(r.panic)
       ELSE /\ flake8_items' = r.items
            /\ out' = NoOutput
            /\ pc' = "build"
            /\ UNCHANGED <<term, out_buf, procs, size, pyright_items, app, frame, panic>>

\* The paint at the end of a step that leaves the App as a: render_to_term
\* writes the rows and flushes, or panics on an index, or a write fails.
Paint(a) ==
    IF render_panics(a)
    THEN Panic([at |-> 222, msg |-> "index out of bounds", names |-> {}])
    ELSE \/ /\ app' = a
            /\ frame' = render_to_term(a)
            /\ term' = Flush(term, out_buf)
            /\ out_buf' = <<>>
            /\ pc' = "running"
            /\ size' = <<0, 0>>
            /\ pyright_items' = <<>>
            /\ flake8_items' = <<>>
            /\ UNCHANGED <<procs, out, panic>>
         \/ IoPanic(231, term)

\* The App literal, the line_offsets block and the first render_to_term.
BuildApp ==
    /\ pc = "build"
    /\ LET items == render_in_buffer(pyright_items, flake8_items)
           a == [AppDefault EXCEPT !.items = items,
                                   !.width = size[1],
                                   !.height = size[2],
                                   !.line_offsets = build_offsets(items, 1, 0)]
       IN Paint(a)

-----------------------------------------------------------------------------
(***************************************************************************)
(* main(): the event loop.                                                 *)
(***************************************************************************)
Modifiers == {"NONE", "CONTROL", "SHIFT"}
KeyCodes == {"Up", "Down", "Esc", "q", "Q", "c", "C", "PageDown"}

\* What crossterm::event::read() may return.
KeyEvents ==
    {[kind |-> "Key", modifiers |-> m, code |-> c, width |-> 0, height |-> 0] :
        m \in Modifiers, c \in KeyCodes}
ResizeEvents ==
    {[kind |-> "Resize", modifiers |-> "NONE", code |-> "", width |-> w,
      height |-> h] : w \in Widths, h \in 0..MaxHeight}
\* Mouse, focus and paste events.
OtherEvents ==
    {[kind |-> "Other", modifiers |-> "NONE", code |-> "", width |-> 0,
      height |-> 0]}
Events == KeyEvents \cup ResizeEvents \cup OtherEvents

\* What handling one event comes to: the loop goes on ("loop") with the App
\* as `app`, after a repaint or not and with `queue` added to the BufWriter;
\* or the loop is left ("break"); or the handler panics.
Outcome(ctl, a, paint, queue, p) ==
    [ctl |-> ctl, app |-> a, paint |-> paint, queue |-> queue, panic |-> p]
Continue(a) == Outcome("loop", a, FALSE, <<>>, NoPanic)
Repaint(a) == Outcome("loop", a, TRUE, <<>>, NoPanic)
Break(a) == Outcome("break", a, FALSE, <<>>, NoPanic)
Panics(a, at, msg) ==
    Outcome("panic", a, FALSE, <<>>, [at |-> at, msg |-> msg, names |-> {}])

\* key_up, were it to leave the viewport where it is.
key_up_keeps_viewport(a) ==
    IF a.selected_item > 0
    THEN {Repaint([a EXCEPT !.selected_item = a.selected_item - 1])}
    ELSE {Continue(a)}

\* key_up, were its guard `selected_item >= 0`: at 0 the subtraction
\* overflows, which panics or wraps as the build has it.
key_up_unguarded(a) ==
    IF a.selected_item = 0
    THEN {Panics(a, 282, "attempt to subtract with overflow"),
          Repaint([a EXCEPT !.selected_item = UsizeMax])}
    ELSE LET a1 == [a EXCEPT !.selected_item = a.selected_item - 1]
         IN {Repaint(IF a1.first_visible_item >= a1.selected_item
                     THEN [a1 EXCEPT !.first_visible_item = a1.selected_item,
                                     !.first_visible_subline = 0]
                     ELSE a1)}

\* key_up, were its guard `selected_item > 1`.
key_up_guard_off_by_one(a) ==
    IF a.selected_item > 1
    THEN LET a1 == [a EXCEPT !.selected_item = a.selected_item - 1]
         IN {Repaint(IF a1.first_visible_item >= a1.selected_item
                     THEN [a1 EXCEPT !.first_visible_item = a1.selected_item,
                                     !.first_visible_subline = 0]
                     ELSE a1)}
    ELSE {Continue(a)}

\* key_up, were its comparison `first_visible_item > selected_item`.
key_up_strict_compare(a) ==
    IF a.selected_item > 0
    THEN LET a1 == [a EXCEPT !.selected_item = a.selected_item - 1]
         IN {Repaint(IF a1.first_visible_item > a1.selected_item
                     THEN [a1 EXCEPT !.first_visible_item = a1.selected_item,
                                     !.first_visible_subline = 0]
                     ELSE a1)}
    ELSE {Continue(a)}

\* The KeyCode::Up arm.
key_up(a) ==
    IF a.selected_item > 0
    THEN LET a1 == [a EXCEPT !.selected_item = a.selected_item - 1]
             a2 == IF a1.first_visible_item >= a1.selected_item
                   THEN [a1 EXCEPT !.first_visible_item = a1.selected_item,
                                   !.first_visible_subline = 0]
                   ELSE a1
         IN {Repaint(a2)}
    ELSE {Continue(a)}

RECURSIVE scroll(_, _)
\* The `for _ in 0..delta` loop of the KeyCode::Down arm with n iterations
\* left. oob: an iteration indexed items[first_visible_item] past the end.
scroll(a, n) ==
    IF n = 0 THEN [oob |-> FALSE, app |-> a]
    ELSE IF a.first_visible_item >= Len(a.items) THEN [oob |-> TRUE, app |-> a]
    ELSE IF a.first_visible_subline + 1 > NumLines(a, a.first_visible_item) - 1
         THEN scroll([a EXCEPT !.first_visible_item = a.first_visible_item + 1,
                               !.first_visible_subline = 0], n - 1)
         ELSE scroll([a EXCEPT !.first_visible_subline =
                                   a.first_visible_subline + 1], n - 1)

\* scroll_to, were its delta one short.
scroll_to_one_short(a, last_visible_offset) ==
    LET selected_last_offset ==
            line_offset(a, a.selected_item, NumLines(a, a.selected_item) - 1)
    IN IF last_visible_offset < selected_last_offset
       THEN LET r == scroll(a, selected_last_offset - last_visible_offset - 1)
            IN IF r.oob THEN Panics(a, 309, "index out of bounds")
               ELSE Repaint(r.app)
       ELSE Repaint(a)

\* The rest of the KeyCode::Down arm once last_visible_offset is known.
scroll_to(a, last_visible_offset) ==
    LET selected_last_offset ==
            line_offset(a, a.selected_item, NumLines(a, a.selected_item) - 1)
    IN IF last_visible_offset < selected_last_offset
       THEN LET r == scroll(a, selected_last_offset - last_visible_offset)
            IN IF r.oob THEN Panics(a, 309, "index out of bounds")
               ELSE Repaint(r.app)
       ELSE Repaint(a)

\* key_down, were its last_visible_offset line_offset(..) + height.
key_down_forgets_minus_one(a) ==
    IF a.selected_item + 1 < Len(a.items)
    THEN LET a1 == [a EXCEPT !.selected_item = a.selected_item + 1]
         IN {scroll_to(a1, line_offset(a1, a1.first_visible_item,
                                       a1.first_visible_subline) + a1.height)}
    ELSE {Continue(a)}

\* The KeyCode::Down arm. line_offset(..) + height - 1 is usize arithmetic:
\* when the sum is 0 the subtraction overflows, which panics in a build
\* with overflow checks and wraps to usize::MAX in one without.
key_down(a) ==
    IF a.selected_item + 1 < Len(a.items)
    THEN LET a1 == [a EXCEPT !.selected_item = a.selected_item + 1] IN
         IF a1.first_visible_item >= Len(a1.line_offsets)
         THEN {Panics(a1, 235, "index out of bounds")}
         ELSE LET sum == line_offset(a1, a1.first_visible_item,
                                     a1.first_visible_subline) + a1.height
              IN IF sum = 0
                 THEN {Panics(a1, 294, "attempt to subtract with overflow"),
                       scroll_to(a1, UsizeMax)}
                 ELSE {scroll_to(a1, sum - 1)}
    ELSE {Continue(a)}

\* resize, were it to put the viewport back at the top of the list.
resize_resets_viewport(a, width, height) ==
    {Repaint([a EXCEPT !.width = width, !.height = height,
                       !.first_visible_item = 0, !.first_visible_subline = 0])}

\* resize, were it to take the event's pair as (rows, columns).
resize_swapped_dimensions(a, width, height) ==
    {Repaint([a EXCEPT !.width = height, !.height = width])}

\* The Event::Resize arm.
resize(a, width, height) ==
    {Repaint([a EXCEPT !.width = width, !.height = height])}

\* handle, were the check of the modifiers missing.
handle_any_modifiers(a, ev) ==
    IF ev.kind = "Key"
    THEN IF ev.modifiers = "CONTROL" /\ ev.code \in {"c", "C"} THEN {Break(a)}
         ELSE CASE ev.code = "Up" -> key_up(a)
                [] ev.code = "Down" -> key_down(a)
                [] ev.code \in {"Esc", "Q", "q"} -> {Break(a)}
                [] ev.code = "PageDown" ->
                       {Outcome("loop", a, FALSE, <<"ScrollDown">>, NoPanic)}
                [] OTHER -> {Continue(a)}
    ELSE IF ev.kind = "Resize" THEN resize(a, ev.width, ev.height)
    ELSE {Continue(a)}

\* handle, were the render_to_term of the PageDown arm not commented out.
handle_page_down_repaints(a, ev) ==
    IF ev.kind = "Key"
    THEN IF ev.modifiers = "CONTROL" /\ ev.code \in {"c", "C"} THEN {Break(a)}
         ELSE IF ev.modifiers # "NONE" THEN {Continue(a)}
         ELSE CASE ev.code = "Up" -> key_up(a)
                [] ev.code = "Down" -> key_down(a)
                [] ev.code \in {"Esc", "Q", "q"} -> {Break(a)}
                [] ev.code = "PageDown" ->
                       {Outcome("loop", a, TRUE, <<"ScrollDown">>, NoPanic)}
                [] OTHER -> {Continue(a)}
    ELSE IF ev.kind = "Resize" THEN resize(a, ev.width, ev.height)
    ELSE {Continue(a)}

\* The body of the loop for the event ev: the outcomes it can have.
handle(a, ev) ==
    IF ev.kind = "Key"
    THEN IF ev.modifiers = "CONTROL" /\ ev.code \in {"c", "C"} THEN {Break(a)}
         ELSE IF ev.modifiers # "NONE" THEN {Continue(a)}
         ELSE CASE ev.code = "Up" -> key_up(a)
                [] ev.code = "Down" -> key_down(a)
                [] ev.code \in {"Esc", "Q", "q"} -> {Break(a)}
                [] ev.code = "PageDown" ->
                       {Outcome("loop", a, FALSE, <<"ScrollDown">>, NoPanic)}
                [] OTHER -> {Continue(a)}
    ELSE IF ev.kind = "Resize" THEN resize(a, ev.width, ev.height)
    ELSE {Continue(a)}

\* The lines after the loop: raw mode is disabled at once, Show and
\* LeaveAlternateScreen are queued and flushed, and main returns; or the
\* flush fails.
Teardown ==
    \/ /\ pc' = "terminated"
       /\ term' = Flush([term EXCEPT !.raw_mode = FALSE],
                        Queue(out_buf, TeardownCommands))
       /\ out_buf' = <<>>
       /\ out' = NoOutput
       /\ size' = <<0, 0>>
       /\ pyright_items' = <<>>
       /\ flake8_items' = <<>>
       /\ app' = AppDefault
       /\ frame' = <<>>
       /\ UNCHANGED <<procs, panic>>
    \/ IoPanic(342, [term EXCEPT !.raw_mode = FALSE])

\* One iteration of the loop on the event ev.
Dispatch(ev) ==
    /\ pc = "running"
    /\ \E r \in handle(app, ev) :
          CASE r.ctl = "panic" -> Panic(r.panic)
            [] r.ctl = "break" -> Teardown
            [] r.paint -> Paint(r.app)
            [] OTHER ->
                  /\ app' = r.app
                  /\ out_buf' = Queue(out_buf, r.queue)
                  /\ UNCHANGED <<pc, term, procs, out, size, pyright_items,
                                 flake8_items, frame, panic>>

\* The classes of events, one per arm of the two matches.
IsKey(ev, mods, codes) ==
    ev.kind = "Key" /\ ev.modifiers \in mods /\ ev.code \in codes

CtrlC == \E ev \in Events : IsKey(ev, {"CONTROL"}, {"c", "C"}) /\ Dispatch(ev)

ModifiedKey ==
    \E ev \in Events :
        /\ IsKey(ev, Modifiers \ {"NONE"}, KeyCodes)
        /\ ~IsKey(ev, {"CONTROL"}, {"c", "C"})
        /\ Dispatch(ev)

MoveUp == \E ev \in Events : IsKey(ev, {"NONE"}, {"Up"}) /\ Dispatch(ev)

MoveDown == \E ev \in Events : IsKey(ev, {"NONE"}, {"Down"}) /\ Dispatch(ev)

Quit == \E ev \in Events : IsKey(ev, {"NONE"}, {"Esc", "Q", "q"}) /\ Dispatch(ev)

PageDown == \E ev \in Events : IsKey(ev, {"NONE"}, {"PageDown"}) /\ Dispatch(ev)

OtherKey ==
    \E ev \in Events :
        /\ IsKey(ev, {"NONE"}, KeyCodes \ {"Up", "Down", "Esc", "Q", "q", "PageDown"})
        /\ Dispatch(ev)

Resize == \E ev \in Events : ev.kind = "Resize" /\ Dispatch(ev)

OtherEvent == \E ev \in Events : ev.kind = "Other" /\ Dispatch(ev)

\* crossterm::event::read() fails: its .unwrap() panics.
ReadError ==
    /\ pc = "running"
    /\ Panic([at |-> 267, msg |-> "Result::unwrap() on an Err: io::Error",
              names |-> {}])

-----------------------------------------------------------------------------
(***************************************************************************)
(* The specifications.                                                     *)
(***************************************************************************)
\* The tools run on a tree where pyright reports errors only and flake8
\* codes start with E or (unknown to the adapter) D; the formatter's blocks
\* have 1 to MaxRows rows.
PyrightErrors == PyrightOutputs({"error"}, MaxRows)
Flake8ErrorsAndUnknown == Flake8Outputs({"E", "D"}, MaxRows)
PyrightSpawn == PyrightSpawnOf(PyrightErrors)
Flake8Spawn == Flake8SpawnOf(Flake8ErrorsAndUnknown)

\* The tools run on a tree where they report every severity and letter; the
\* formatter's blocks have one row.
PyrightAny == PyrightOutputs(Severities, 1)
Flake8Any == Flake8Outputs(Letters, 1)
PyrightSpawnAny == PyrightSpawnOf(PyrightAny)
Flake8SpawnAny == Flake8SpawnOf(Flake8Any)

Startup ==
    \/ TerminalSetup
    \/ TerminalSize
    \/ PyrightSpawn
    \/ PyrightParse
    \/ Flake8Spawn
    \/ Flake8Parse
    \/ BuildApp

Next ==
    \/ Startup
    \/ CtrlC
    \/ ModifiedKey
    \/ MoveUp
    \/ MoveDown
    \/ Quit
    \/ PageDown
    \/ OtherKey
    \/ Resize
    \/ OtherEvent
    \/ ReadError

\* The whole program.
Spec == Init /\ [][Next]_vars

\* The program with no events but plain Up and Down keys.
NextNav == Startup \/ MoveUp \/ MoveDown

SpecNav == Init /\ [][NextNav]_vars

\* The program up to its first paint, the tools reporting anything.
NextStartup ==
    \/ TerminalSetup
    \/ TerminalSize
    \/ PyrightSpawnAny
    \/ PyrightParse
    \/ Flake8SpawnAny
    \/ Flake8Parse
    \/ BuildApp

SpecStartup == Init /\ [][NextStartup]_vars

-----------------------------------------------------------------------------
(***************************************************************************)
(* The viewport invariants of the data model.                              *)
(***************************************************************************)
\* Invariant V2: the selection is not above the viewport.
V2(a) ==
    /\ a.first_visible_item <= a.selected_item
    /\ a.first_visible_item = a.selected_item => a.first_visible_subline = 0

\* Invariant V1: the last row of the selected item is not below the last
\* visible row.
V1(a) ==
    line_offset(a, a.selected_item, NumLines(a, a.selected_item) - 1)
        <= line_offset(a, a.first_visible_item, a.first_visible_subline)
               + a.height - 1

\* The selected item is not taller than the terminal.
SelectedFits(a) == NumLines(a, a.selected_item) <= a.height

\* C1 as stated: after every Move-Up / Move-Down from the initial state,
\* first_visible_item <= selected_item, and when the two are equal
\* first_visible_subline is 0, whatever the items and the height.
C1_V2Always == pc = "running" => V2(app)

\* C1, amended: after every Move-Up / Move-Down from the initial state,
\* first_visible_item <= selected_item; and when the two are equal and the
\* selected item has at most `height` rows, first_visible_subline is 0.
C1_V2WhenSelectedFits ==
    pc = "running" =>
        /\ app.first_visible_item <= app.selected_item
        /\ (app.items # <<>> /\ SelectedFits(app)
              /\ app.first_visible_item = app.selected_item)
           => app.first_visible_subline = 0

\* C1's case: a Move-Down has scrolled the viewport down to the selected
\* item, which fits the terminal.
C1_Witness ==
    /\ pc = "running"
    /\ app.selected_item > 0
    /\ app.first_visible_item = app.selected_item
    /\ SelectedFits(app)

\* C2 as stated: after every Move-Up / Move-Down from the initial state, if
\* the list is not empty, V1 holds, whatever the items and the height.
C2_V1Always ==
    [][(pc = "running" /\ pc' = "running" /\ app'.items # <<>>) => V1(app')]_vars

\* C2, amended: after every Move-Up / Move-Down from the initial state, if
\* the list is not empty and the selected item has at most `height` rows,
\* V1 holds.
C2_V1WhenSelectedFits ==
    (pc = "running" /\ app.items # <<>> /\ SelectedFits(app)) => V1(app)

\* C2's case: a Move-Down has scrolled the viewport just far enough: the
\* last row of the selected item is the last visible row.
C2_Witness ==
    /\ pc = "running"
    /\ app.selected_item > 0
    /\ SelectedFits(app)
    /\ line_offset(app, app.first_visible_item, app.first_visible_subline) > 0
    /\ line_offset(app, app.selected_item, NumLines(app, app.selected_item) - 1)
         = line_offset(app, app.first_visible_item, app.first_visible_subline)
               + app.height - 1

-----------------------------------------------------------------------------
\* C3 as stated: in the loop, 0 <= selected_item < len(items), whatever the
\* items.
C3_SelectedInRange ==
    pc = "running" => (0 <= app.selected_item /\ app.selected_item < Len(app.items))

\* C3, amended: in the loop, 0 <= selected_item < len(items) when the list
\* is not empty, and selected_item = 0 when it is empty.
C3_SelectedInRangeOrZero ==
    pc = "running" =>
        /\ 0 <= app.selected_item
        /\ app.items # <<>> => app.selected_item < Len(app.items)
        /\ app.items = <<>> => app.selected_item = 0

\* C3's case: Move-Down events have brought the selection to the last of
\* several items.
C3_Witness ==
    /\ pc = "running"
    /\ app.selected_item > 0
    /\ app.selected_item = Len(app.items) - 1

-----------------------------------------------------------------------------
\* C4: in the loop, line_offsets is as long as items, starts at 0, has
\* line_offsets[i] + len(items[i].lines) = line_offsets[i+1], does not
\* decrease, and no event changes it (or the items).
C4_OffsetsArePrefixSums ==
    /\ [](pc = "running" =>
            /\ Len(app.line_offsets) = Len(app.items)
            /\ app.items # <<>> => app.line_offsets[1] = 0
            /\ \A i \in 1..(Len(app.items) - 1) :
                  /\ app.line_offsets[i] + Len(app.items[i].lines)
                        = app.line_offsets[i + 1]
                  /\ app.line_offsets[i] <= app.line_offsets[i + 1]
            /\ \A i \in 1..Len(app.items) :
                  app.line_offsets[i] = SumLines(app.items, i - 1))
    /\ [][(pc = "running" /\ pc' = "running") =>
            (app'.line_offsets = app.line_offsets /\ app'.items = app.items)]_vars

\* C4's case: the table of several items, after events have moved the
\* selection.
C4_Witness ==
    /\ pc = "running"
    /\ Len(app.items) >= 3
    /\ app.line_offsets[3] > app.line_offsets[2] + 1
    /\ app.selected_item > 0

\* The plain Down and Up key events.
KeyDownEvent ==
    [kind |-> "Key", modifiers |-> "NONE", code |-> "Down", width |-> 0, height |-> 0]
KeyUpEvent ==
    [kind |-> "Key", modifiers |-> "NONE", code |-> "Up", width |-> 0, height |-> 0]

\* C5 as stated: from any state of the loop, a Move-Down event and then a
\* Move-Up event leave selected_item as it was.
C5_DownUpRestores ==
    pc = "running" =>
        \A d \in handle(app, KeyDownEvent) :
            d.ctl = "loop" =>
                \A u \in handle(d.app, KeyUpEvent) :
                    u.app.selected_item = app.selected_item

\* C5, amended: from any state of the loop where Move-Down is enabled
\* (selected_item + 1 < len(items)), a Move-Down event and then a Move-Up
\* event leave selected_item as it was.
C5_EnabledDownUpRestores ==
    (pc = "running" /\ app.selected_item + 1 < Len(app.items)) =>
        \A d \in handle(app, KeyDownEvent) :
            d.ctl = "loop" =>
                \A u \in handle(d.app, KeyUpEvent) :
                    /\ u.ctl = "loop"
                    /\ d.app.selected_item = app.selected_item + 1
                    /\ u.app.selected_item = app.selected_item

\* C5's case: Move-Down has acted, is enabled again, and the Move-Up after
\* it does not put the viewport back.
C5_Witness ==
    /\ pc = "running"
    /\ app.selected_item > 0
    /\ app.selected_item + 1 < Len(app.items)
    /\ \E d \in handle(app, KeyDownEvent) :
          /\ d.ctl = "loop"
          /\ \E u \in handle(d.app, KeyUpEvent) :
                /\ u.app.selected_item = app.selected_item
                /\ u.app.first_visible_item # app.first_visible_item

-----------------------------------------------------------------------------
\* C6 as stated: whichever way the process ends once the terminal has been
\* acquired (quit, a failure at startup, a failed write, a panic), raw mode
\* is off and the alternate screen is left when it has ended.
C6_EveryExitRestores ==
    pc \in {"terminated", "panicked"} =>
        (~term.raw_mode /\ ~term.alternate_screen)

\* The places where an adapter fails.
AdapterPcs == {"pyright", "pyright_parse", "flake8", "flake8_parse"}

\* C7 as stated: when an adapter fails, no terminal mode has been changed,
\* or queued to be changed, yet: the process ends with the terminal as it
\* found it.
C7_AdaptersFailBeforeModes ==
    [][(pc \in AdapterPcs /\ pc' = "panicked") =>
          (term = TermInit /\ out_buf = <<>> /\ term' = TermInit)]_vars

\* The quit keys of the specification: Ctrl-C, Esc, plain q, plain Q.
QuitKeys ==
    {ev \in KeyEvents :
        \/ ev.modifiers = "CONTROL" /\ ev.code \in {"c", "C"}
        \/ ev.modifiers = "NONE" /\ ev.code \in {"Esc", "q", "Q"}}

\* C8: in the loop, whatever the items, the events that leave the loop are
\* the quit keys and no others; a quit key can end the process as
\* terminated; the step that ends it as terminated starts in the loop and
\* leaves the alternate screen left, raw mode off and the cursor shown; and
\* nothing happens after that.
C8_QuitKeysTerminate ==
    /\ [](pc = "running" =>
            /\ \A ev \in Events : \A r \in handle(app, ev) :
                  (r.ctl = "break") <=> (ev \in QuitKeys)
            /\ ENABLED (CtrlC /\ pc' = "terminated")
            /\ ENABLED (Quit /\ pc' = "terminated"))
    /\ [][pc' = "terminated" =>
            /\ pc = "running"
            /\ ~term'.alternate_screen
            /\ ~term'.raw_mode
            /\ ~term'.cursor_hidden]_vars
    /\ [][pc # "terminated"]_vars

\* C8's case: a quit key has ended the process after both tools ran.
C8_Witness ==
    /\ pc = "terminated"
    /\ procs = <<"pyright", "flake8">>
    /\ ~term.alternate_screen
    /\ ~term.raw_mode
    /\ ~term.cursor_hidden

\* The tag of an item's block.
TagOf(item) == item.lines[1][1]

SeverityOfCode(code) ==
    CASE code \in {"E", "F"} -> "Error"
      [] code \in {"W", "N"} -> "Warning"
      [] code = "C"          -> "Advice"
      [] OTHER               -> "none"

\* C10 as stated: of flake8 lines that are well formed, the adapter makes
\* one item each, of the severity of the code's letter; when a line's
\* letter is none of E, F, W, N, C the adapter fails, yields nothing, and
\* its error names that line.
C10_SeverityByLetterOrNamedError ==
    [][(pc = "flake8_parse" /\ pc' # pc /\ out.valid /\ ~out.empty
          /\ \A k \in 1..Len(out.entries) : out.entries[k].fault = "none") =>
        IF \A k \in 1..Len(out.entries) :
              SeverityOfCode(out.entries[k].code) # "none"
        THEN /\ pc' = "build"
             /\ Len(flake8_items') = Len(out.entries)
             /\ \A k \in 1..Len(out.entries) :
                   flake8_items'[k].lines[1][2] = SeverityOfCode(out.entries[k].code)
        ELSE /\ pc' = "panicked"
             /\ flake8_items' = <<>>
             /\ \E k \in 1..Len(out.entries) :
                   /\ SeverityOfCode(out.entries[k].code) = "none"
                   /\ out.entries[k].code \in panic'.names]_vars

-----------------------------------------------------------------------------
\* Every diagnostic of a tool's output o is one the adapter can render.
AllRenderable(o) ==
    /\ o.valid
    /\ \A k \in 1..Len(o.entries) : o.entries[k].fault = "none"

\* C11: an adapter returns only when it has rendered every diagnostic of
\* its tool; when it cannot render one, the process ends there, whatever it
\* had rendered before; and rows are painted only in the loop, which starts
\* only after both adapters have returned: nothing is painted in an
\* execution in which a diagnostic failed.
C11_AllRenderOrAbort ==
    /\ [][(pc = "pyright_parse" /\ pc' # pc) =>
            IF AllRenderable(out)
            THEN pc' = "flake8" /\ Len(pyright_items') = Len(out.entries)
            ELSE pc' = "panicked" /\ frame' = <<>> /\ app' = AppDefault]_vars
    /\ [][(pc = "flake8_parse" /\ pc' # pc) =>
            IF AllRenderable(out)
                 /\ \A k \in 1..Len(out.entries) :
                       SeverityOfCode(out.entries[k].code) # "none"
            THEN pc' = "build" /\ Len(flake8_items') = Len(out.entries)
            ELSE pc' = "panicked" /\ frame' = <<>> /\ app' = AppDefault]_vars
    /\ [][pc' = "build" => pc = "flake8_parse"]_vars
    /\ [][pc' = "flake8" => pc = "pyright_parse"]_vars
    /\ [][(pc' = "running" /\ pc # "running") => pc = "build"]_vars
    /\ [](frame # <<>> => (pc = "running" /\ procs = <<"pyright", "flake8">>))
    /\ [](pc \in {"setup", "size", "pyright", "pyright_parse", "flake8",
                  "flake8_parse", "build", "panicked"} => frame = <<>>)

\* C11's case: pyright's item has been rendered, flake8 has written a line
\* that renders and then one whose file cannot be read, and the adapter is
\* about to fail on it.
C11_Witness ==
    /\ pc = "flake8_parse"
    /\ pyright_items # <<>>
    /\ Len(out.entries) = 2
    /\ out.entries[1].fault = "none"
    /\ out.entries[2].fault = "file"
    /\ flake8(out).panic.at = 137
    /\ flake8(out).items = <<>>

-----------------------------------------------------------------------------
\* The global offset of the first visible row, by summing the rows of the
\* items before it.
FirstVisibleOffset(a) == SumLines(a.items, a.first_visible_item) + a.first_visible_subline

RECURSIVE AdvanceWhile(_, _, _)
\* The loop of the specification's Move-Down: while L < S, advance the
\* viewport by one row, rolling to the next item when one is exhausted.
AdvanceWhile(a, L, S) ==
    IF L < S
    THEN AdvanceWhile(
             IF a.first_visible_subline + 1 >= NumLines(a, a.first_visible_item)
             THEN [a EXCEPT !.first_visible_item = a.first_visible_item + 1,
                            !.first_visible_subline = 0]
             ELSE [a EXCEPT !.first_visible_subline = a.first_visible_subline + 1],
             L + 1, S)
    ELSE a

\* Scenario 3: three items of 4 rows, height 6, the initial viewport.
Scenario3App ==
    LET its == [k \in 1..3 |-> Item("[pyright]", "Error", 4)]
    IN [AppDefault EXCEPT !.items = its, !.line_offsets = build_offsets(its, 1, 0),
                          !.width = 80, !.height = 6]

\* (first_visible_item, first_visible_subline, selected_item)
Viewport(a) == <<a.first_visible_item, a.first_visible_subline, a.selected_item>>

\* C12 as stated: an enabled Move-Down selects the next item and advances
\* the viewport by max(0, S - L) rows, L = line_offset(first_visible_item,
\* first_visible_subline) + height - 1 taken before and S the offset of the
\* new selection's last row, as the specification's while loop does, and
\* asks for a repaint; in Scenario 3 two Move-Downs give (0,2,1), (1,2,2).
C12_DownAdvancesBySMinusL ==
    /\ \A d1 \in key_down(Scenario3App) :
          /\ d1.ctl = "loop" /\ Viewport(d1.app) = <<0, 2, 1>>
          /\ \A d2 \in key_down(d1.app) :
                d2.ctl = "loop" /\ Viewport(d2.app) = <<1, 2, 2>>
    /\ (pc = "running" /\ app.selected_item + 1 < Len(app.items)) =>
          LET a1 == [app EXCEPT !.selected_item = app.selected_item + 1]
              L == FirstVisibleOffset(app) + app.height - 1
              S == SumLines(app.items, a1.selected_item)
                       + NumLines(app, a1.selected_item) - 1
              delta == IF S > L THEN S - L ELSE 0
          IN \A r \in handle(app, KeyDownEvent) :
                /\ r.ctl = "loop"
                /\ r.paint
                /\ r.app.selected_item = app.selected_item + 1
                /\ FirstVisibleOffset(r.app) = FirstVisibleOffset(app) + delta
                /\ r.app = AdvanceWhile(a1, L, S)

-----------------------------------------------------------------------------
\* What the specification's Move-Up makes of the App a.
SpecMoveUp(a) ==
    LET sel == a.selected_item - 1
    IN IF sel <= a.first_visible_item
       THEN [a EXCEPT !.selected_item = sel, !.first_visible_item = sel,
                      !.first_visible_subline = 0]
       ELSE [a EXCEPT !.selected_item = sel]

\* C13: an enabled Move-Up (selected_item > 0) selects the item before; the
\* viewport becomes row 0 of that item when it is not after the first
\* visible item, and stays otherwise; one repaint is asked for, and the
\* step of the loop that selects the item before paints the App so made.
\* From (1,2,2) in Scenario 3 a Move-Up gives (1,0,1).
C13_UpMovesSelection ==
    /\ [](/\ \A u \in key_up([Scenario3App EXCEPT !.first_visible_item = 1,
                                                   !.first_visible_subline = 2,
                                                   !.selected_item = 2]) :
                u.ctl = "loop" /\ u.paint /\ Viewport(u.app) = <<1, 0, 1>>
          /\ (pc = "running" /\ app.selected_item > 0) =>
                /\ Cardinality(handle(app, KeyUpEvent)) = 1
                /\ \A r \in handle(app, KeyUpEvent) :
                      /\ r.ctl = "loop"
                      /\ r.paint
                      /\ r.queue = <<>>
                      /\ r.app = SpecMoveUp(app))
    /\ [][(pc = "running" /\ pc' = "running"
             /\ app'.selected_item = app.selected_item - 1) =>
            (app' = SpecMoveUp(app) /\ frame' = render_to_term(app'))]_vars

\* C13's case: the viewport is inside the item before the selected one, as
\* in (1,2,2), and a Move-Up puts it at that item's row 0.
C13_Witness ==
    /\ pc = "running"
    /\ app.selected_item = 2
    /\ app.first_visible_item = 1
    /\ app.first_visible_subline > 0
    /\ \E r \in handle(app, KeyUpEvent) : r.paint /\ Viewport(r.app) = <<1, 0, 1>>

-----------------------------------------------------------------------------
\* V1 with the offset of the first visible row taken by summing rows, so
\* that it has a value when the viewport is past the last item too.
V1AtOffset(a) ==
    SumLines(a.items, a.selected_item) + NumLines(a, a.selected_item) - 1
        <= FirstVisibleOffset(a) + a.height - 1

\* C14 as stated: V1 holds after every transition of the controller that
\* leaves it with a list that is not empty: after the first paint (the
\* initial state), after every key event and after every Resize, for the
\* height the transition leaves.
C14_V1AfterEveryTransition ==
    [][(pc' = "running" /\ app'.items # <<>>) => V1AtOffset(app')]_vars

\* C14, amended: V1 holds in the initial state when the first item has at
\* most `height` rows; a Resize does not move the viewport, and keeps V1
\* when the new height is not below the old one.
C14_V1InitiallyAndUnderGrowth ==
    /\ [][(pc = "build" /\ pc' = "running" /\ app'.items # <<>>
             /\ SelectedFits(app')) => V1AtOffset(app')]_vars
    /\ [][(pc = "running" /\ pc' = "running" /\ app.items # <<>>
             /\ <<app'.width, app'.height>> # <<app.width, app.height>>) =>
            /\ Viewport(app') = Viewport(app)
            /\ (V1AtOffset(app) /\ app'.height >= app.height) => V1AtOffset(app')]_vars

\* C14's case: the viewport has been scrolled, V1 holds, and a Resize to a
\* greater height keeps it.
C14_Witness ==
    /\ pc = "running"
    /\ app.items # <<>>
    /\ FirstVisibleOffset(app) > 0
    /\ V1AtOffset(app)
    /\ \E ev \in ResizeEvents :
          /\ ev.height > app.height
          /\ \A r \in handle(app, ev) : r.paint /\ V1AtOffset(r.app)

-----------------------------------------------------------------------------
\* C15: a Resize(w, h) event makes width w and height h, asks for one
\* repaint, and leaves selected_item, first_visible_item,
\* first_visible_subline, items and line_offsets as they were; the step of
\* the loop that changes the size paints the App so made.
C15_ResizeSetsSizeOnly ==
    /\ [](pc = "running" =>
            \A ev \in ResizeEvents :
                /\ Cardinality(handle(app, ev)) = 1
                /\ \A r \in handle(app, ev) :
                      /\ r.ctl = "loop"
                      /\ r.paint
                      /\ r.queue = <<>>
                      /\ r.app.width = ev.width
                      /\ r.app.height = ev.height
                      /\ Viewport(r.app) = Viewport(app)
                      /\ r.app.items = app.items
                      /\ r.app.line_offsets = app.line_offsets)
    /\ [][(pc = "running" /\ pc' = "running"
             /\ <<app'.width, app'.height>> # <<app.width, app.height>>) =>
            /\ \E ev \in ResizeEvents :
                  app'.width = ev.width /\ app'.height = ev.height
            /\ Viewport(app') = Viewport(app)
            /\ app'.items = app.items
            /\ app'.line_offsets = app.line_offsets
            /\ frame' = render_to_term(app')]_vars

\* C15's case: a Resize to height 0 has come after the viewport was
\* scrolled (at height 0 nothing scrolls it), and the viewport is kept.
C15_Witness ==
    /\ pc = "running"
    /\ app.height = 0
    /\ app.selected_item > 0
    /\ FirstVisibleOffset(app) > 0
    /\ frame = <<>>

-----------------------------------------------------------------------------
\* The events that act on the App a or end the loop: an enabled Move-Up, an
\* enabled Move-Down, a quit key, a Resize.
ActingEvents(a) ==
    {ev \in Events :
        \/ ev = KeyUpEvent /\ a.selected_item > 0
        \/ ev = KeyDownEvent /\ a.selected_item + 1 < Len(a.items)
        \/ ev \in QuitKeys
        \/ ev.kind = "Resize"}

\* C16: in the loop, every other event (Move-Up at the first item,
\* Move-Down at the last item or on an empty list, Page-Down, any other
\* key, any key with a modifier but Ctrl-C, any other event) leaves the App
\* as it was, does not leave the loop and asks for no repaint; and the step
\* that queues Page-Down's scroll writes nothing and paints nothing.
C16_OtherEventsAreNoOps ==
    /\ [](pc = "running" =>
            \A ev \in Events \ ActingEvents(app) :
                \A r \in handle(app, ev) :
                    /\ r.ctl = "loop"
                    /\ ~r.paint
                    /\ r.app = app)
    /\ [][(pc = "running" /\ out_buf' # out_buf /\ out_buf' # <<>>) =>
            /\ pc' = "running"
            /\ app' = app
            /\ frame' = frame
            /\ term' = term]_vars

\* C16's case: a Page-Down has been handled (its scroll is still queued),
\* at the last of several items, where Move-Down is a no-op as well.
C16_Witness ==
    /\ pc = "running"
    /\ out_buf = <<"ScrollDown">>
    /\ app.selected_item > 0
    /\ app.selected_item + 1 = Len(app.items)
    /\ KeyDownEvent \notin ActingEvents(app)
    /\ handle(app, KeyDownEvent) = {Continue(app)}

-----------------------------------------------------------------------------
\* C17 as stated: in the loop, whatever the items and the height, the
\* viewport is at a row of an item (or at (0, 0) when the list is empty),
\* and a Move-Down neither indexes out of range nor takes
\* line_offset(..) + height - 1 below zero.
C17_AnchorValid ==
    pc = "running" =>
        /\ app.items = <<>> => app.first_visible_item = 0
        /\ app.items # <<>> =>
              /\ app.first_visible_item < Len(app.items)
              /\ app.first_visible_subline < NumLines(app, app.first_visible_item)
        /\ app.selected_item + 1 < Len(app.items) =>
              /\ FirstVisibleOffset(app) + app.height - 1 >= 0
              /\ \A r \in handle(app, KeyDownEvent) : r.ctl # "panic"

-----------------------------------------------------------------------------
\* The number of rows of all items.
TotalLines(a) == SumLines(a.items, Len(a.items))

\* The global offset of the row a painted row shows.
RowOffset(a, row) == SumLines(a.items, row.item) + row.subline

\* C18: the rows on the screen are those of a repaint of the App as it is:
\* min(height, T - F) of them, T the number of rows of all items and F the
\* offset of the first visible row; the k-th shows the row at offset
\* F + k - 1; the badge i + 1 is on the rows that show row 0 of item i and
\* on no other; the marker is on the rows that show row 0 of the selected
\* item and on no other, so on one at most. A step that repaints leaves the
\* App as the handler of an event made it.
C18_RepaintShowsTheWindow ==
    /\ [](pc = "running" =>
            LET T == TotalLines(app)
                F == FirstVisibleOffset(app)
                n == IF app.height < T - F THEN app.height ELSE T - F
            IN /\ frame = render_to_term(app)
               /\ Len(frame) = n
               /\ \A k \in 1..Len(frame) :
                     /\ RowOffset(app, frame[k]) = F + k - 1
                     /\ frame[k].item < Len(app.items)
                     /\ frame[k].subline < NumLines(app, frame[k].item)
                     /\ frame[k].bytes
                           = app.items[frame[k].item + 1].lines[frame[k].subline + 1]
                     /\ frame[k].badge
                           = (IF frame[k].subline = 0 THEN frame[k].item + 1 ELSE 0)
                     /\ frame[k].marker
                           <=> (frame[k].subline = 0
                                  /\ frame[k].item = app.selected_item)
               /\ Cardinality({k \in 1..Len(frame) : frame[k].marker}) <= 1)
    /\ [][(pc = "running" /\ pc' = "running" /\ frame' # frame) =>
            \E ev \in Events : \E r \in handle(app, ev) : r.paint /\ app' = r.app]_vars

\* C18's case: a repaint whose first row is inside an item and whose second
\* is row 0 of the selected item, with its badge and the marker.
C18_Witness ==
    /\ pc = "running"
    /\ Len(frame) = 2
    /\ frame[1].subline > 0
    /\ ~frame[1].marker
    /\ frame[1].badge = 0
    /\ frame[2].marker
    /\ frame[2].badge = app.selected_item + 1
    /\ TotalLines(app) - FirstVisibleOffset(app) >= app.height

\* Another case of C18: the items end before the screen does.
C18_ShortFrame ==
    /\ pc = "running"
    /\ Len(frame) > 0
    /\ Len(frame) < app.height

-----------------------------------------------------------------------------
\* C19 as stated: once main has returned, each of the four terminal
\* resources has been released: the alternate screen is left, raw mode is
\* off, the cursor is shown and line wrap is enabled again.
C19_AllFourReleased ==
    pc = "terminated" =>
        /\ ~term.alternate_screen
        /\ ~term.raw_mode
        /\ ~term.cursor_hidden
        /\ term.line_wrap

-----------------------------------------------------------------------------
\* No item of the App a is taller than the terminal.
AllItemsFit(a) == \A i \in 0..(Len(a.items) - 1) : NumLines(a, i) <= a.height

\* C20: with a height that does not change and a list (not empty) of items
\* none of which is taller than the terminal, after every Move-Up /
\* Move-Down from the initial state, and in it, the viewport starts at or
\* before row 0 of the selected item and ends at or after its last row, and
\* the rows on the screen have the marker on exactly one of them.
C20_SelectedItemInView ==
    (pc = "running" /\ app.items # <<>> /\ AllItemsFit(app)) =>
        /\ FirstVisibleOffset(app) <= app.line_offsets[app.selected_item + 1]
        /\ app.line_offsets[app.selected_item + 1]
               + NumLines(app, app.selected_item) - 1
             <= FirstVisibleOffset(app) + app.height - 1
        /\ Cardinality({k \in 1..Len(frame) : frame[k].marker}) = 1

\* C20's case: a Move-Down has scrolled the viewport into the first item,
\* the selected item below it wholly in view.
C20_Witness ==
    /\ pc = "running"
    /\ AllItemsFit(app)
    /\ app.selected_item > 0
    /\ FirstVisibleOffset(app) > 0
    /\ FirstVisibleOffset(app) < app.line_offsets[app.selected_item + 1]
    /\ Cardinality({k \in 1..Len(frame) : frame[k].marker}) = 1

=============================================================================
